---- MODULE Spec2Model ----
(***************************************************************************)
(* BertEmbeddingDataset (nemo/collections/llm/bert/data/core.py):          *)
(* construction, item access (__getitem__ / _process_example) and batch    *)
(* collation (_collate_fn).                                                *)
(*                                                                         *)
(* Python values are represented as follows.                               *)
(*   list            a sequence                                            *)
(*   Optional[x]     << >> for None, <<x>> otherwise                       *)
(*   dict            a function on its (string) keys                       *)
(*   text            the sequence of its word ids after strip()            *)
(*   offsets, idx    0-based integers as in the code (+1 when a sequence   *)
(*                   is indexed)                                           *)
(***************************************************************************)
EXTENDS Integers, Sequences, FiniteSets, TLC

VARIABLES
    args,       \* the constructor arguments of the one dataset being built
    file,       \* the records of the JSONL file at file_path
    objs,       \* << >> before / after a failed construction, <<self>> after
    pc,         \* "new", "ready", "config_error", "item_error", "collated", "collate_error"
    lastIdx,    \* Optional idx handed to the latest __getitem__ call
    batch,      \* the shaped examples fetched so far (the list given to _collate_fn)
    out,        \* Optional processed batch returned by _collate_fn
    err         \* the exception type raised last ("" when none)

vars ==
    <<args, file, objs, pc, lastIdx, batch, out, err>>

(***************************************************************************)
(* Bounds of the model.                                                    *)
(***************************************************************************)
\* largest num_hard_negatives
MaxK ==
    3
\* largest number of items fetched into one batch
MaxBatch ==
    2
\* number of words of a short text is 1..MaxShort
MaxShort ==
    2

\* the tile the padded length is rounded up to
TileSize ==
    16

None ==
    << >>

Some(x) ==
    <<x>>

Range(s) ==
    {s[i] : i \in 1..Len(s)}

Max(S) ==
    CHOOSE m \in S : \A n \in S : n <= m

Min(a, b) ==
    IF a <= b THEN a ELSE b

\* [v] * n  (an empty list when n <= 0)
Repeat(v, n) ==
    IF n <= 0 THEN << >> ELSE [i \in 1..n |-> v]

\* s[:n] with Python's slice semantics (a negative stop counts from the end)
SliceTo(s, n) ==
    IF n >= 0
    THEN SubSeq(s, 1, Min(n, Len(s)))
    ELSE SubSeq(s, 1, Len(s) + n)

\* s[n:] with Python's slice semantics
SliceFrom(s, n) ==
    IF n >= 0
    THEN SubSeq(s, n + 1, Len(s))
    ELSE SubSeq(s, IF Len(s) + n < 0 THEN 1 ELSE Len(s) + n + 1, Len(s))

(***************************************************************************)
(* The tokenizer and the record file (collaborators of the dataset).       *)
(***************************************************************************)
Text(w, n) ==
    Repeat(w, n)

\* tokenizer.text_to_ids(prefix + text.strip()): one id for the prefix, one per word
TextToIds(prefix, text) ==
    <<(IF prefix = "query: " THEN 7 ELSE 8)>> \o text

Tokenizers ==
    {[pad_id |-> p, eos_id |-> 2, bos_id |-> 1] : p \in {None, Some(0), Some(3)}}

\* two hard negatives, the second longer than one tile; both id fields
RecA ==
    [query |-> Text(11, 1), pos_doc |-> Text(12, MaxShort),
     neg_doc |-> <<Text(13, 1), Text(14, TileSize + 1)>>,
     query_id |-> 100, doc_id |-> 200]

\* no hard negative, a query longer than one tile, no doc_id
RecB ==
    [query |-> Text(21, TileSize + 1), pos_doc |-> Text(22, 1),
     neg_doc |-> << >>, query_id |-> 101]

Files ==
    {<<RecA, RecB>>}

(***************************************************************************)
(* Constructor arguments.                                                  *)
(***************************************************************************)
\* max_seq_length is a length: one token, one tile, a little more than a tile
MaxSeqLengths ==
    {1, TileSize, TileSize + 2}

ArgSets ==
    [tokenizer : Tokenizers,
     max_seq_length : MaxSeqLengths,
     add_bos : BOOLEAN,
     add_eos : BOOLEAN,
     max_num_samples : {None, Some(1)},
     virtual_tokens : {0, 2},
     truncation_method : {"left", "right", "middle"},
     data_type : {"train", "query", "doc", "eval"},
     num_hard_negatives : 0..MaxK,
     negative_sample_strategy : {"random", "first", "last"}]

\* Python truthiness of an Optional[int]: None and 0 are falsy
Truthy(x) ==
    x # None /\ x[1] # 0

PadTokenId(tokenizer) ==
    IF Truthy(tokenizer.pad_id) THEN tokenizer.pad_id[1] ELSE tokenizer.eos_id

\* the two assertions of __init__
ConstructorAsserts(a) ==
    /\ (a.truncation_method = "left" \/ a.truncation_method = "right")
    /\ (a.negative_sample_strategy = "random" \/ a.negative_sample_strategy = "first")

\* _get_samples_mapping: max_num_samples triples (record_offset, start, end)
GetSamplesMapping(ds, n) ==
    [1..n -> {<<o, 0, 0>> : o \in 0..(Len(ds) - 1)}]

BuildSamplesMapping(a, ds) ==
    IF a.max_num_samples # None
    THEN {Some(m) : m \in GetSamplesMapping(ds, a.max_num_samples[1])}
    ELSE {None}

NewSelf(a, ds, mapping) ==
    [tokenizer |-> a.tokenizer,
     max_seq_length |-> a.max_seq_length,
     add_bos |-> a.add_bos,
     add_eos |-> a.add_eos,
     max_num_samples |-> a.max_num_samples,
     virtual_tokens |-> a.virtual_tokens,
     truncation_method |-> a.truncation_method,
     pad_token_id |-> PadTokenId(a.tokenizer),
     negative_sample_strategy |-> a.negative_sample_strategy,
     data_type |-> a.data_type,
     num_hard_negatives |-> a.num_hard_negatives,
     indexed_dataset |-> ds,
     samples_mapping |-> mapping]

\* BertEmbeddingDataset(...)
Construct ==
    /\ pc = "new"
    /\ IF ~ConstructorAsserts(args)
       THEN /\ pc' = "config_error"
            /\ err' = "AssertionError: __init__"
            /\ objs' = << >>
       ELSE /\ \E m \in BuildSamplesMapping(args, file) :
                objs' = <<NewSelf(args, file, m)>>
            /\ pc' = "ready"
            /\ err' = ""
    /\ UNCHANGED <<args, file, lastIdx, batch, out>>

Init ==
    /\ args \in ArgSets
    /\ file \in Files
    /\ objs = << >>
    /\ pc = "new"
    /\ lastIdx = None
    /\ batch = << >>
    /\ out = None
    /\ err = ""

(***************************************************************************)
(* _process_example                                                        *)
(***************************************************************************)
Ok(v) ==
    [err |-> "", val |-> <<v>>]

Raise(e) ==
    [err |-> e, val |-> << >>]

\* random.choices(population, k=k): k draws with replacement; the generator's
\* state is unknown, so every draw is possible. No outcome when the
\* population is empty and k > 0 (IndexError).
Choices(population, k) ==
    {[i \in 1..k |-> population[f[i]]] : f \in [1..k -> 1..Len(population)]}

\* random.sample(population, k=k): k draws without replacement, in any order
Sample(population, k) ==
    {[i \in 1..k |-> population[f[i]]] :
        f \in {g \in [1..k -> 1..Len(population)] :
                  \A i, j \in 1..k : i # j => g[i] # g[j]}}

\* a slip: the last k negatives instead of the first k
LastNegatives(neg_doc, k) ==
    SliceFrom(neg_doc, Len(neg_doc) - k)

\* example['neg_doc'][: self.num_hard_negatives]
FirstNegatives(neg_doc, k) ==
    SliceTo(neg_doc, k)

\* the texts nd may be bound to before the assertion on its length
SampleNegatives(self, neg_doc) ==
    IF Len(neg_doc) < self.num_hard_negatives
    THEN {neg_doc \o c : c \in Choices(neg_doc, self.num_hard_negatives - Len(neg_doc))}
    ELSE IF self.negative_sample_strategy = "random"
         THEN Sample(neg_doc, self.num_hard_negatives)
         ELSE {FirstNegatives(neg_doc, self.num_hard_negatives)}

\* [eos_id] * virtual_tokens + x, when virtual_tokens is truthy
AddVirtual(self, x) ==
    IF self.virtual_tokens # 0
    THEN Repeat(self.tokenizer.eos_id, self.virtual_tokens) \o x
    ELSE x

AddBos(self, x) ==
    IF self.add_bos THEN <<self.tokenizer.bos_id>> \o x ELSE x

\* a slip: no room kept for the end token
TruncateToMax(self, x) ==
    SliceTo(x, self.max_seq_length)

\* x[: self.max_seq_length - 1]
Truncate(self, x) ==
    SliceTo(x, self.max_seq_length - 1)

AddEos(self, x) ==
    IF self.add_eos THEN x \o <<self.tokenizer.eos_id>> ELSE x

\* lines 263-287 applied to one id sequence (None already replaced by [])
ShapeIds(self, x) ==
    AddEos(self, Truncate(self, AddBos(self, AddVirtual(self, x))))

ShapedExample(self, q, d, nd, metadata) ==
    [query |-> ShapeIds(self, q),
     pos_doc |-> ShapeIds(self, d),
     neg_doc |-> [i \in 1..Len(nd) |-> ShapeIds(self, nd[i])],
     metadata |-> metadata]

\* a slip: only the id fields are carried over
MetadataIdsOnly(example) ==
    [k \in DOMAIN example \ {"query", "pos_doc", "neg_doc"} |-> example[k]]

\* {k: v for k, v in example.items()}
Metadata(example) ==
    [k \in DOMAIN example |-> example[k]]

\* the set of outcomes of self._process_example(example)
ProcessExample(self, example) ==
    LET metadata == Metadata(example)
    IN  IF self.data_type = "train"
        THEN LET q == TextToIds("query: ", example["query"])
                 d == TextToIds("passage: ", example["pos_doc"])
                 nds == SampleNegatives(self, example["neg_doc"])
             IN  IF nds = {}
                 THEN {Raise("IndexError: choices")}
                 ELSE {IF Len(nd) = self.num_hard_negatives
                       THEN Ok(ShapedExample(self, q, d,
                                   [i \in 1..Len(nd) |-> TextToIds("passage: ", nd[i])],
                                   metadata))
                       ELSE Raise("AssertionError: hard negatives") : nd \in nds}
        ELSE IF self.data_type = "query"
        THEN IF "query_id" \notin DOMAIN example
             THEN {Raise("AssertionError: query_id")}
             ELSE IF "doc_id" \notin DOMAIN example
             THEN {Raise("AssertionError: doc_id")}
             ELSE {Ok(ShapedExample(self, TextToIds("query: ", example["query"]),
                                    << >>, << >>, metadata))}
        ELSE IF self.data_type = "doc"
        THEN IF "doc_id" \notin DOMAIN example
             THEN {Raise("AssertionError: doc_id")}
             ELSE {Ok(ShapedExample(self, << >>,
                                    TextToIds("passage: ", example["pos_doc"]),
                                    << >>, metadata))}
        ELSE {Raise("ValueError: data type")}

(***************************************************************************)
(* __len__ and __getitem__                                                 *)
(***************************************************************************)
SelfLen(self) ==
    IF self.max_num_samples = None
    THEN Len(self.indexed_dataset)
    ELSE Len(self.samples_mapping[1])

\* self.indexed_dataset[idx]: a fresh copy of the record, or an access fault
IndexedLookup(ds, idx) ==
    IF 0 <= idx /\ idx < Len(ds) THEN Ok(ds[idx + 1]) ELSE Raise("IndexError: indexed_dataset")

\* lines 199-203: the idx after the samples mapping is consulted
ResolveSample(self, idx) ==
    LET m == self.samples_mapping
    IN  IF m = None
        THEN [err |-> "", idx |-> idx]
        ELSE IF idx = None
        THEN [err |-> "TypeError: idx", idx |-> None]
        ELSE IF ~(idx[1] < Len(m[1]))
        THEN [err |-> "AssertionError: samples_mapping", idx |-> None]
        ELSE IF idx[1] < -Len(m[1])
        THEN [err |-> "IndexError: samples_mapping", idx |-> None]
        ELSE [err |-> "",
              idx |-> Some(m[1][(IF idx[1] < 0 THEN Len(m[1]) + idx[1] ELSE idx[1]) + 1][1])]

\* the set of outcomes of self[idx]
GetItemOutcomes(self, idx) ==
    LET r == ResolveSample(self, idx)
    IN  IF r.err # ""
        THEN {Raise(r.err)}
        ELSE IF r.idx # None /\ ~(r.idx[1] < Len(self.indexed_dataset))
        THEN {Raise("AssertionError: indexed_dataset")}
        ELSE LET i == IF r.idx # None THEN r.idx[1] ELSE -1
                 auto_gen_idx == i < 0
                 j == IF auto_gen_idx THEN SelfLen(self) + i ELSE i
                 got == IndexedLookup(self.indexed_dataset, j)
             IN  IF got.err # ""
                 THEN {got}
                 ELSE ProcessExample(self,
                          IF auto_gen_idx
                          THEN [k \in DOMAIN got.val[1] \cup {"__AUTOGENERATED__"} |->
                                   IF k = "__AUTOGENERATED__" THEN TRUE ELSE got.val[1][k]]
                          ELSE got.val[1])

\* the ordinals handed to __getitem__: in range (0, 1), past the end (2), the
\* padding ordinal -1, and a negative ordinal that wraps out of range (-3)
IdxInputs ==
    {Some(i) : i \in {-3} \cup (-1..2)}

\* one item access by the data loader; an exception aborts the batch fetch
GetItem ==
    /\ pc = "ready"
    /\ Len(batch) < MaxBatch
    /\ \E idx \in IdxInputs :
         \E r \in GetItemOutcomes(objs[1], idx) :
            /\ lastIdx' = idx
            /\ IF r.err = ""
               THEN /\ batch' = Append(batch, r.val[1])
                    /\ UNCHANGED <<pc, err>>
               ELSE /\ pc' = "item_error"
                    /\ err' = r.err
                    /\ batch' = << >>
    /\ UNCHANGED <<args, file, objs, out>>

(***************************************************************************)
(* _collate_fn                                                             *)
(***************************************************************************)
\* a slip: rounding down to the tile
FloorToNearest(n, m) ==
    (n \div m) * m

CeilToNearest(n, m) ==
    ((n + m - 1) \div m) * m

\* the rows one shaped example adds to input_ids (a valid data_type)
ItemRows(self, item) ==
    IF self.data_type = "train"
    THEN <<item["query"], item["pos_doc"]>> \o item["neg_doc"]
    ELSE IF self.data_type = "query"
    THEN <<item["query"]>>
    ELSE <<item["pos_doc"]>>

RECURSIVE FlattenRows(_, _)
FlattenRows(self, items) ==
    IF items = << >>
    THEN << >>
    ELSE ItemRows(self, Head(items)) \o FlattenRows(self, Tail(items))

\* max_length after the loop of lines 340-363
RawMaxLength(rows) ==
    Max({-1} \cup {Len(rows[r]) : r \in 1..Len(rows)})

PaddedLength(self, rows) ==
    Min(self.max_seq_length, CeilToNearest(RawMaxLength(rows), TileSize))

\* pad one row on the side truncation_method names
PadRow(self, x, max_length) ==
    IF self.truncation_method = "left"
    THEN Repeat(self.pad_token_id, max_length - Len(x)) \o x
    ELSE x \o Repeat(self.pad_token_id, max_length - Len(x))

CollateItem(self, item, max_length) ==
    [r \in 1..Len(item) |-> PadRow(self, item[r], max_length)]

\* a slip: the ones always at the start, whatever side the padding is on
CreateAttentionMaskPrefix(self, max_length, item_length) ==
    [p \in 1..max_length |-> IF p - 1 < Min(item_length, max_length) THEN 1 ELSE 0]

\* torch.zeros(max_length) with the slice on one side set to 1
CreateAttentionMask2(self, max_length, item_length) ==
    LET start == max_length - item_length
        from == IF start < 0
                THEN (IF max_length + start < 0 THEN 0 ELSE max_length + start)
                ELSE Min(start, max_length)
        upto == Min(item_length, max_length)
    IN  IF self.truncation_method = "left"
        THEN [p \in 1..max_length |-> IF p - 1 >= from THEN 1 ELSE 0]
        ELSE [p \in 1..max_length |-> IF p - 1 < upto THEN 1 ELSE 0]

\* position_ids = [list(range(max_length)) for _ in batch]
PositionIds(items, max_length) ==
    [i \in 1..Len(items) |-> [p \in 1..max_length |-> p - 1]]

\* torch.zeros_like(input_ids)
ZerosLike(t) ==
    [r \in 1..Len(t) |-> [p \in 1..Len(t[r]) |-> 0]]

\* torch.LongTensor(nested list) accepts only rows of one length
Rectangular(t) ==
    \A r \in 1..Len(t) : Len(t[r]) = Len(t[1])

\* the outcome of self._collate_fn(items) for a non-empty list of items
CollateFn(self, items) ==
    IF self.data_type \notin {"train", "query", "doc"}
    THEN Raise("ValueError: data type")
    ELSE LET rows == FlattenRows(self, items)
             max_length == PaddedLength(self, rows)
             input_ids == CollateItem(self, rows, max_length)
         IN  IF ~(max_length <= self.max_seq_length)
             THEN Raise("AssertionError: max_length")
             ELSE IF ~Rectangular(input_ids)
             THEN Raise("ValueError: LongTensor")
             ELSE Ok([input_ids |-> input_ids,
                      token_type_ids |-> ZerosLike(input_ids),
                      attention_mask |->
                          [r \in 1..Len(rows) |->
                              CreateAttentionMask2(self, max_length, Len(rows[r]))],
                      metadata |-> [i \in 1..Len(items) |-> items[i]["metadata"]],
                      position_ids |-> PositionIds(items, max_length)])

\* the data loader collates the items it fetched
Collate ==
    /\ pc = "ready"
    /\ batch # << >>
    /\ LET r == CollateFn(objs[1], batch)
       IN  IF r.err = ""
           THEN /\ out' = Some(r.val[1])
                /\ pc' = "collated"
                /\ err' = ""
           ELSE /\ out' = None
                /\ pc' = "collate_error"
                /\ err' = r.err
    /\ UNCHANGED <<args, file, objs, lastIdx, batch>>

Next ==
    \/ Construct
    \/ GetItem
    \/ Collate

Spec ==
    Init /\ [][Next]_vars

(***************************************************************************)
(* Properties.                                                             *)
(***************************************************************************)
Collated ==
    pc = "collated"

\* every id sequence of a shaped example
ExampleSequences(item) ==
    {item["query"], item["pos_doc"]} \cup Range(item["neg_doc"])

\* the index in a padded row of the n-th token of a raw row of length len
TokenPosition(side, L, len, n) ==
    IF side = "left" THEN L - len + n ELSE n

\* C1: in train mode the negative-sampling step returns exactly K negatives
\* for every record, a record with an empty neg_doc included: it never
\* faults, and every shaped example has exactly K negatives.
C1_ExactlyKNegatives ==
    args.data_type = "train" =>
        /\ ~(pc = "item_error" /\ err = "IndexError: choices")
        /\ \A i \in 1..Len(batch) :
              Len(batch[i]["neg_doc"]) = args.num_hard_negatives

\* C2: in train mode, N collated examples with K negatives each give
\* input_ids, token_type_ids, attention_mask and position_ids of one shape
\* [N*(2+K), L]; the rows of input_ids are query, pos_doc and the K negatives
\* of each example in input order, token_type_ids is zero and every one of
\* the N*(2+K) rows of position_ids is [0, 1, ..., L-1].
C2_TrainBatchShape ==
    (Collated /\ args.data_type = "train") =>
        LET o == out[1]
            K == args.num_hard_negatives
            n == Len(batch) * (2 + K)
            L == Len(o.input_ids[1])
            side == args.truncation_method
            Shape(t) == Len(t) = n /\ \A r \in 1..n : Len(t[r]) = L
            Holds(r, x) ==
                \A q \in 1..Len(x) : o.input_ids[r][TokenPosition(side, L, Len(x), q)] = x[q]
        IN  /\ Shape(o.input_ids)
            /\ Shape(o.token_type_ids)
            /\ Shape(o.attention_mask)
            /\ Shape(o.position_ids)
            /\ \A i \in 1..Len(batch) :
                  /\ Holds((i - 1) * (2 + K) + 1, batch[i]["query"])
                  /\ Holds((i - 1) * (2 + K) + 2, batch[i]["pos_doc"])
                  /\ \A k \in 1..K :
                        Holds((i - 1) * (2 + K) + 2 + k, batch[i]["neg_doc"][k])
            /\ \A r \in 1..n : \A q \in 1..L : o.token_type_ids[r][q] = 0
            /\ \A r \in 1..n : o.position_ids[r] = [q \in 1..L |-> q - 1]

\* C3: every attention_mask row has exactly raw_length ones and L - raw_length
\* zeros; the ones are the first raw_length positions when truncation_method
\* is right and the last raw_length positions when it is left, and they are
\* the positions of input_ids that hold the row's own tokens.
C3_AttentionMask ==
    Collated =>
        LET o == out[1]
            rows == FlattenRows(objs[1], batch)
            side == args.truncation_method
        IN  /\ Len(o.attention_mask) = Len(rows)
            /\ Len(o.input_ids) = Len(rows)
            /\ \A r \in 1..Len(rows) :
                  LET mask == o.attention_mask[r]
                      L == Len(mask)
                      len == Len(rows[r])
                      ones == {q \in 1..L : mask[q] = 1}
                  IN  /\ \A q \in 1..L : mask[q] \in {0, 1}
                      /\ Cardinality(ones) = len
                      /\ Cardinality((1..L) \ ones) = L - len
                      /\ side = "right" => ones = 1..len
                      /\ side = "left" => ones = (L - len + 1)..L
                      /\ Len(o.input_ids[r]) = L
                      /\ ones = {TokenPosition(side, L, len, q) : q \in 1..len}
                      /\ \A q \in 1..len :
                            o.input_ids[r][TokenPosition(side, L, len, q)] = rows[r][q]

\* C3 witness: a left-padded batch with a row that fills L and a shorter row
C3_Witness ==
    /\ Collated
    /\ args.truncation_method = "left"
    /\ LET rows == FlattenRows(objs[1], batch)
           L == Len(out[1].attention_mask[1])
       IN  /\ L > 0
           /\ \E r \in 1..Len(rows) : Len(rows[r]) = L
           /\ \E r \in 1..Len(rows) : 0 < Len(rows[r]) /\ Len(rows[r]) < L

C5_InvalidConfigRejectedAtConstruction ==
    (\/ args.truncation_method \notin {"left", "right"}
     \/ args.negative_sample_strategy \notin {"random", "first"}
     \/ args.data_type \notin {"train", "query", "doc"}) => objs = << >>

\* C6: a shaped example has, in query mode, a non-empty query and empty
\* pos_doc and neg_doc; in doc mode a non-empty pos_doc and empty query and
\* neg_doc; in train mode non-empty query and pos_doc and its K negatives
\* (a max_seq_length of 1 leaves room for the end token alone).
C6_PopulatedByMode ==
    \A i \in 1..Len(batch) :
        LET item == batch[i]
            room == args.max_seq_length > 1 \/ args.add_eos
        IN  /\ args.data_type = "query" =>
                  /\ room => item["query"] # << >>
                  /\ item["pos_doc"] = << >>
                  /\ item["neg_doc"] = << >>
            /\ args.data_type = "doc" =>
                  /\ room => item["pos_doc"] # << >>
                  /\ item["query"] = << >>
                  /\ item["neg_doc"] = << >>
            /\ args.data_type = "train" =>
                  /\ room => (item["query"] # << >> /\ item["pos_doc"] # << >>)
                  /\ Len(item["neg_doc"]) = args.num_hard_negatives

\* the n-th negative text of a raw record, as _process_example shapes it
ShapedNegative(record, n) ==
    ShapeIds(objs[1], TextToIds("passage: ", record["neg_doc"][n]))

\* C7: with strategy first, two transforms of the same record return the
\* same negatives in the same order, whatever the random generator does and
\* whatever the relation between len(neg_doc) and K.
C7_FirstIsDeterministic ==
    (args.data_type = "train" /\ args.negative_sample_strategy = "first") =>
        \A i, j \in 1..Len(batch) :
            batch[i]["metadata"] = batch[j]["metadata"] =>
                batch[i]["neg_doc"] = batch[j]["neg_doc"]

\* C7 as amended: with strategy first and len(neg_doc) >= K two transforms of
\* the same record return the same negatives, the first K of the record in
\* their order; with len(neg_doc) < K only the first len(neg_doc) negatives
\* are determined (the record's own, in order), the rest being drawn by
\* random.choices.
C7_FirstIsDeterministicWhenEnough ==
    (args.data_type = "train" /\ args.negative_sample_strategy = "first") =>
        /\ \A i, j \in 1..Len(batch) :
              (/\ batch[i]["metadata"] = batch[j]["metadata"]
               /\ Len(batch[i]["metadata"]["neg_doc"]) >= args.num_hard_negatives) =>
                  batch[i]["neg_doc"] = batch[j]["neg_doc"]
        /\ \A i \in 1..Len(batch) :
              LET record == batch[i]["metadata"]
                  fixed == Min(Len(record["neg_doc"]), args.num_hard_negatives)
              IN  \A n \in 1..fixed : batch[i]["neg_doc"][n] = ShapedNegative(record, n)

\* C7 witness: the same record transformed twice, with more negatives than K
C7_Witness ==
    /\ args.data_type = "train"
    /\ args.negative_sample_strategy = "first"
    /\ args.num_hard_negatives >= 1
    /\ \E i, j \in 1..Len(batch) :
          /\ i # j
          /\ batch[i]["metadata"] = batch[j]["metadata"]
          /\ Len(batch[i]["metadata"]["neg_doc"]) > args.num_hard_negatives

\* C8: for every item access (non-negative ordinals, the padding ordinal -1,
\* with or without a sample index) the metadata of the shaped example has
\* exactly the keys and values of a raw record of the record source.
C8_MetadataIsRawRecord ==
    \A i \in 1..Len(batch) :
        \E n \in 1..Len(file) :
            /\ DOMAIN batch[i]["metadata"] = DOMAIN file[n]
            /\ \A k \in DOMAIN file[n] : batch[i]["metadata"][k] = file[n][k]

\* C8 as amended: the metadata of the example an item access returns is the
\* raw record at the resolved offset, with every field unchanged; when the
\* ordinal is negative and there is no sample index the record is the one at
\* len + idx and the metadata has one more key, __AUTOGENERATED__, set to
\* True. (The example returned by the latest access is the last of batch.)
C8_MetadataPassthrough ==
    batch # << >> =>
        LET idx == lastIdx[1]
            md == batch[Len(batch)]["metadata"]
            mapping == objs[1].samples_mapping
            wrapped == mapping = None /\ idx < 0
            offset == IF mapping = None
                      THEN (IF idx < 0 THEN Len(file) + idx ELSE idx)
                      ELSE mapping[1][(IF idx < 0 THEN Len(mapping[1]) + idx ELSE idx) + 1][1]
            record == file[offset + 1]
        IN  /\ DOMAIN md = DOMAIN record \cup (IF wrapped THEN {"__AUTOGENERATED__"} ELSE {})
            /\ \A k \in DOMAIN record : md[k] = record[k]
            /\ wrapped => md["__AUTOGENERATED__"] = TRUE

\* C8 witness: the padding ordinal -1 served without a sample index
C8_Witness ==
    /\ batch # << >>
    /\ lastIdx = Some(-1)
    /\ objs[1].samples_mapping = None
    /\ "__AUTOGENERATED__" \in DOMAIN batch[Len(batch)]["metadata"]
    /\ "query_id" \in DOMAIN batch[Len(batch)]["metadata"]

\* C9: every padding position holds the tokenizer's pad id whenever the
\* tokenizer has one (0 included); the eos id pads only when it has none.
C9_PadIdUsed ==
    Collated =>
        LET o == out[1]
            rows == FlattenRows(objs[1], batch)
            tokenizer == args.tokenizer
            pad == IF tokenizer.pad_id # None THEN tokenizer.pad_id[1] ELSE tokenizer.eos_id
        IN  \A r \in 1..Len(rows) :
                LET L == Len(o.input_ids[r])
                    len == Len(rows[r])
                    own == {TokenPosition(args.truncation_method, L, len, q) : q \in 1..len}
                IN  \A q \in (1..L) \ own : o.input_ids[r][q] = pad

\* C10: the padded length L of a collated batch satisfies
\* raw_max <= L <= max_seq_length, and L mod 16 = 0 unless L = max_seq_length
\* with max_seq_length not a multiple of 16; collation never fails on the
\* assertion, nor on rows left longer than L.
C10_PaddedLength ==
    /\ pc # "collate_error"
    /\ Collated =>
          LET o == out[1]
              rows == FlattenRows(objs[1], batch)
              L == Len(o.position_ids[1])
          IN  /\ \A r \in 1..Len(rows) : Len(rows[r]) <= L
              /\ \A r \in 1..Len(rows) : Len(o.input_ids[r]) = L
              /\ L <= args.max_seq_length
              /\ \/ L % TileSize = 0
                 \/ (L = args.max_seq_length /\ args.max_seq_length % TileSize # 0)

\* C10 witness: rows longer than one tile, capped at a max_seq_length that is
\* no multiple of the tile
C10_Witness ==
    /\ Collated
    /\ Len(out[1].position_ids[1]) = args.max_seq_length
    /\ args.max_seq_length % TileSize # 0
    /\ \E r \in 1..Len(out[1].input_ids) :
          Len(FlattenRows(objs[1], batch)[r]) > TileSize

====
